---------------------------- MODULE Spec2Model ----------------------------
(***************************************************************************)
(* A model of scripts/gen_logos.py: the initials extractor, the colour     *)
(* math, the badge composer and the batch driver (main).                   *)
(*                                                                         *)
(* Text is modelled as a sequence of one-character strings, so that the    *)
(* regular expression of initials_from_name and the hex parsing of         *)
(* _hex_to_rgb are computed character by character.  A code point outside  *)
(* ASCII is written "U+XXXX".                                              *)
(***************************************************************************)
EXTENDS Integers, Sequences, FiniteSets, TLC

VARIABLES
    pc,          \* position of the running function or of main
    name,        \* initials_from_name: the argument
    initials,    \* initials_from_name: the returned string
    primary,     \* pick_initials_color: the first argument
    accent,      \* pick_initials_color: the second argument (None when omitted)
    text_color,  \* pick_initials_color: the returned colour
    cfg,         \* brands.yaml as main finds it
    cairosvg,    \* whether the import of lines 3-6 gave a module (FALSE: None)
    bi,          \* main: 1-based index of the brand of the for loop
    si,          \* save_pngs: 1-based index into sizes
    svg,         \* main: the document composed for the current brand
    dirs,        \* the directories under ROOT
    fs,          \* the files under ROOT: a set of <<path, content>>
    stdout,      \* the lines printed to standard output by this run
    stderr,      \* the lines printed to standard error by this run
    err,         \* the exception that ended this run ("" for none)
    run,         \* how many times the script was started
    firstRun,    \* history: how the first run ended and what it left on disk
    rasterTried  \* history: the brands whose save_pngs reached svg2png, this run

vars == << pc, name, initials, primary, accent, text_color, cfg, cairosvg, bi, si,
           svg, dirs, fs, stdout, stderr, err, run, firstRun, rasterTried >>

(***************************************************************************)
(* Bounds of the model.                                                    *)
(***************************************************************************)
MaxNameLen == 5
MaxBrands == 2
MaxRuns == 2

(***************************************************************************)
(* Python values and helpers.                                              *)
(***************************************************************************)
None == << "None" >>

UpperSeq == << "A","B","C","D","E","F","G","H","I","J","K","L","M",
               "N","O","P","Q","R","S","T","U","V","W","X","Y","Z" >>
LowerSeq == << "a","b","c","d","e","f","g","h","i","j","k","l","m",
               "n","o","p","q","r","s","t","u","v","w","x","y","z" >>

\* the character class [A-Z]
Upper == { UpperSeq[k] : k \in 1..Len(UpperSeq) }
\* the character class [a-z]
Lower == { LowerSeq[k] : k \in 1..Len(LowerSeq) }

\* str.lower() on one character
LowerChar(c) ==
    IF c \in Upper THEN LowerSeq[CHOOSE k \in 1..Len(UpperSeq) : UpperSeq[k] = c]
    ELSE c

\* str.lower()
StrLower(s) == [k \in 1..Len(s) |-> LowerChar(s[k])]

\* the element of a singleton.  TheOne({ e(x) : x \in { v } }) is e(v) with v
\* computed once, as an assignment to a local variable does
TheOne(S) == CHOOSE x \in S : TRUE

\* s[a:b] of Python, a and b 0-based and b exclusive
Slice(s, a, b) ==
    LET hi == IF b < Len(s) THEN b ELSE Len(s)
    IN  IF a >= hi THEN << >> ELSE SubSeq(s, a + 1, hi)

(***************************************************************************)
(* initials_from_name (gen_logos.py lines 94-115).                         *)
(***************************************************************************)
\* the length of the longest run of characters of class cls starting at
\* 1-based position p of s (0 when s[p] is not in cls)
RECURSIVE RunLen(_, _, _)
RunLen(s, p, cls) ==
    IF p > Len(s) \/ s[p] \notin cls THEN 0 ELSE 1 + RunLen(s, p + 1, cls)

\* (?![a-z]) at 1-based position p: the next character is not lowercase
NotBeforeLower(s, p) == p > Len(s) \/ s[p] \notin Lower

\* a tokenizer whose first alternative is [A-Z]+ without the lookahead
AcronymLen_NoLookahead(s, p) == RunLen(s, p, Upper)

\* [A-Z]+(?![a-z]) at p: the greedy run, given back one character at a time
\* until the lookahead holds; 0 when no length matches
AcronymLen(s, p) ==
    LET greedy == RunLen(s, p, Upper)
        ok == { j \in 1..greedy : NotBeforeLower(s, p + j) }
    IN  IF ok = {} THEN 0 ELSE CHOOSE j \in ok : \A j2 \in ok : j2 <= j

\* [A-Z][a-z]* at p
CapWordLen(s, p) ==
    IF p <= Len(s) /\ s[p] \in Upper THEN 1 + RunLen(s, p + 1, Lower) ELSE 0

\* [a-z]+ at p
LowerRunLen(s, p) == RunLen(s, p, Lower)

\* the match of the whole alternation at p: the first alternative that matches
MatchLen(s, p) ==
    IF AcronymLen(s, p) > 0 THEN AcronymLen(s, p)
    ELSE IF CapWordLen(s, p) > 0 THEN CapWordLen(s, p)
    ELSE LowerRunLen(s, p)

\* re.findall: the non-overlapping matches, scanning from the left.  The
\* length m of the match at p is bound once, as the element of a singleton.
RECURSIVE FindAll(_, _)
FindAll(s, p) ==
    IF p > Len(s) THEN << >>
    ELSE TheOne({ IF m = 0 THEN FindAll(s, p + 1)
                  ELSE << SubSeq(s, p, p + m - 1) >> \o FindAll(s, p + m) :
                      m \in { MatchLen(s, p) } })

\* {"of", "and", "the", "a", "an"}
Connectors == { <<"o","f">>, <<"a","n","d">>, <<"t","h","e">>, <<"a">>, <<"a","n">> }

\* the string literal returned when no token is found (line 104): the three
\* code points U+00E2 U+20AC U+00A2 that the source file holds
Placeholder == << "U+00E2", "U+20AC", "U+00A2" >>

\* a loop that does not skip the connector words
RECURSIVE CollectLetters_KeepConnectors(_, _, _)
CollectLetters_KeepConnectors(tokens, k, letters) ==
    IF k > Len(tokens) THEN letters
    ELSE LET more == Append(letters, tokens[k][1])
         IN  IF Len(more) = 3 THEN more
             ELSE CollectLetters_KeepConnectors(tokens, k + 1, more)

\* the for loop of lines 106-112, from token k on, with the letters so far
RECURSIVE CollectLetters(_, _, _)
CollectLetters(tokens, k, letters) ==
    IF k > Len(tokens) THEN letters
    ELSE IF StrLower(tokens[k]) \in Connectors
         THEN CollectLetters(tokens, k + 1, letters)
         ELSE LET more == Append(letters, tokens[k][1])
              IN  IF Len(more) = 3 THEN more
                  ELSE CollectLetters(tokens, k + 1, more)

initials_from_name(n) ==
    TheOne({ IF tokens = << >> THEN Placeholder
             ELSE LET letters == CollectLetters(tokens, 1, << >>)
                      s == IF letters # << >> THEN letters ELSE << n[1] >>
                  IN  Slice(s, 0, 3) :
                 tokens \in { FindAll(n, 1) } })

(***************************************************************************)
(* Colour math (gen_logos.py lines 19-41).                                 *)
(*                                                                         *)
(* Floating point is modelled in fixed point: a real x in [0, 1] is the    *)
(* integer floor(x * Scale).  Every product stays below 2^31.  A channel   *)
(* is kept as its byte 0..255; the division by 255.0 of _hex_to_rgb is     *)
(* done where chan uses the value.  Against the floating-point code the    *)
(* luminance of a colour is off by less than 0.0005, so a colour whose     *)
(* contrast with white is not within 0.02 of 4.5 gets the code's verdict.  *)
(***************************************************************************)
Scale == 10 ^ 4

HexDigitSeq == << "0","1","2","3","4","5","6","7","8","9",
                  "a","b","c","d","e","f","A","B","C","D","E","F" >>
HexDigits == { HexDigitSeq[k] : k \in 1..Len(HexDigitSeq) }

\* the value of one hexadecimal digit
HexVal(c) ==
    LET k == CHOOSE j \in 1..Len(HexDigitSeq) : HexDigitSeq[j] = c
    IN  IF k <= 16 THEN k - 1 ELSE k - 7

\* whether int(s, 16) returns (it raises ValueError otherwise)
IntHexOk(s) == s # << >> /\ \A k \in 1..Len(s) : s[k] \in HexDigits

\* int(s[:n], 16)
RECURSIVE IntHexUpTo(_, _)
IntHexUpTo(s, n) ==
    IF n = 0 THEN 0 ELSE 16 * IntHexUpTo(s, n - 1) + HexVal(s[n])

\* int(s, 16)
IntHex(s) == IntHexUpTo(s, Len(s))

\* col.lstrip("#")
RECURSIVE LstripHash(_)
LstripHash(col) ==
    IF col # << >> /\ col[1] = "#" THEN LstripHash(Tail(col)) ELSE col

\* whether _hex_to_rgb(col) returns (it raises ValueError otherwise)
HexOk(col) ==
    \A c \in { LstripHash(col) } :
        /\ IntHexOk(Slice(c, 0, 2))
        /\ IntHexOk(Slice(c, 2, 4))
        /\ IntHexOk(Slice(c, 4, 6))

\* _hex_to_rgb: the three channel bytes (the code returns each over 255.0)
hex_to_rgb(col) ==
    TheOne({ << IntHex(Slice(c, 0, 2)), IntHex(Slice(c, 2, 4)), IntHex(Slice(c, 4, 6)) >> :
                 c \in { LstripHash(col) } })

\* fixed-point product
Mul(a, b) == (a * b) \div Scale

\* r ** 5 in fixed point
Pow5(r) == Mul(Mul(Mul(Mul(r, r), r), r), r)

\* the largest r below 2 * bit with r ** 5 <= q and the bits of acc set, found
\* one binary digit at a time
RECURSIVE Root5(_, _, _)
Root5(q, acc, bit) ==
    IF bit = 0 THEN acc
    ELSE IF Pow5(acc + bit) <= q THEN Root5(q, acc + bit, bit \div 2)
    ELSE Root5(q, acc, bit \div 2)

\* chan of _rel_lum for the channel byte v, c = v / 255:
\*   c / 12.92 if c <= 0.03928 else ((c + 0.055) / 1.055) ** 2.4
\* with u ** 2.4 computed as u ** 2 times the fifth root of u ** 2
chan(v) ==
    IF v * 100000 <= 3928 * 255
    THEN (v * Scale * 100) \div (255 * 1292)
    ELSE LET u == ((v * 40 + 561) * Scale) \div 10761
         IN  TheOne({ Mul(q, Root5(q, 0, 2 ^ 13)) : q \in { Mul(u, u) } })

\* _rel_lum: 0.2126 * r + 0.7152 * g + 0.0722 * b
rel_lum(col) ==
    TheOne({ (2126 * chan(rgb[1]) + 7152 * chan(rgb[2]) + 722 * chan(rgb[3])) \div 10000 :
                 rgb \in { hex_to_rgb(col) } })

White == << "#","F","F","F","F","F","F" >>

\* contrast_ratio, in thousandths: (l1 + 0.05) / (l2 + 0.05), l1 >= l2
contrast_ratio(a, b) ==
    TheOne({ LET l1 == IF la >= lb THEN la ELSE lb
                 l2 == IF la >= lb THEN lb ELSE la
             IN  ((l1 + Scale \div 20) * 1000) \div (l2 + Scale \div 20) :
                 la \in { rel_lum(a) }, lb \in { rel_lum(b) } })

\* the truth value of a Python string or None
Truthy(x) == x # None /\ x # << >>

\* x or y
Or(x, y) == IF Truthy(x) THEN x ELSE y

TextWhite == << "w","h","i","t","e" >>
TextDark == << "#","1","1","1","8","2","7" >>
ValueError == << "ValueError" >>

\* all(contrast_ratio(bg, "#FFFFFF") >= 4.5 for bg in backgrounds) from
\* element k on: all() stops at the first background that fails, and a
\* malformed background raises when it is reached
RECURSIVE AllContrast(_, _)
AllContrast(backgrounds, k) ==
    IF k > Len(backgrounds) THEN TextWhite
    ELSE IF ~HexOk(backgrounds[k]) THEN ValueError
    ELSE IF contrast_ratio(backgrounds[k], White) >= 4500
         THEN AllContrast(backgrounds, k + 1)
         ELSE TextDark

\* a pick that looks at the first colour only
pick_initials_color_PrimaryOnly(p, a) == AllContrast(<< p >>, 1)

pick_initials_color(p, a) ==
    LET backgrounds == IF Truthy(a) THEN << p, a >> ELSE << p >>
    IN  AllContrast(backgrounds, 1)

(***************************************************************************)
(* Brand records and the badge composer (gen_logos.py lines 58-92).        *)
(* A brand is a function from the keys its YAML mapping holds.             *)
(***************************************************************************)
Has(b, key) == key \in DOMAIN b

\* b.get(key, default)
Get(b, key, default) == IF Has(b, key) THEN b[key] ELSE default

DefaultPrimary == << "#","1","1","1","8","2","7" >>
DefaultAccent == << "#","6","B","7","2","8","0" >>
DefaultTitle == << "#","1","1","1","8","2","7" >>
GradientFill == << "url(#badgeGrad)" >>

\* whether badge_svg raises: the colours pick_initials_color is called with
BadgeRaises(p, a, use_gradient, gradient_from, gradient_to) ==
    IF use_gradient
    THEN pick_initials_color(Or(gradient_from, p), Or(gradient_to, a)) = ValueError
    ELSE pick_initials_color(p, a) = ValueError

\* a badge whose text colour is always picked against primary and accent
badge_svg_PickFlat(shape, p, a, inits, use_gradient, gradient_from, gradient_to, stroke) ==
    LET from == Or(gradient_from, p)
        to   == Or(gradient_to, a)
    IN  [ defs       |-> IF use_gradient THEN << from, to >> ELSE << >>,
          fill       |-> IF use_gradient THEN GradientFill ELSE p,
          text_color |-> pick_initials_color(p, a),
          element    |-> IF shape = "circle" THEN "circle"
                         ELSE IF shape = "diamond" THEN "rotated rect"
                         ELSE "rect",
          stroke     |-> stroke,
          initials   |-> inits ]

\* badge_svg: the parts of the returned fragment that vary.  The gradient
\* stops are kept; the end points computed from the angle are left out.
badge_svg(shape, p, a, inits, use_gradient, gradient_from, gradient_to, stroke) ==
    LET from == Or(gradient_from, p)
        to   == Or(gradient_to, a)
    IN  [ defs       |-> IF use_gradient THEN << from, to >> ELSE << >>,
          fill       |-> IF use_gradient THEN GradientFill ELSE p,
          text_color |-> IF use_gradient THEN pick_initials_color(from, to)
                                         ELSE pick_initials_color(p, a),
          element    |-> IF shape = "circle" THEN "circle"
                         ELSE IF shape = "diamond" THEN "rotated rect"
                         ELSE "rect",
          stroke     |-> stroke,
          initials   |-> inits ]

(***************************************************************************)
(* main (gen_logos.py lines 139-178): the work on one brand.               *)
(***************************************************************************)
\* lines 149-151
UseGrad(b) == Get(b, "use_gradient", FALSE)
GradFrom(b) == IF UseGrad(b) THEN Get(b, "gradient_from", None) ELSE None
GradTo(b) == IF UseGrad(b) THEN Get(b, "gradient_to", None) ELSE None

\* the exception lines 147-172 raise for brand b ("" when they return):
\* b["name"] of line 147 is read only when badge_initials is unset
RenderError(b) ==
    IF ~Truthy(Get(b, "badge_initials", None)) /\ ~Has(b, "name") THEN "KeyError"
    ELSE IF BadgeRaises(Get(b, "primary", DefaultPrimary), Get(b, "accent", DefaultAccent),
                        UseGrad(b), GradFrom(b), GradTo(b)) THEN "ValueError"
    ELSE IF ~Has(b, "name") \/ ~Has(b, "domain") THEN "KeyError"
    ELSE ""

\* lines 147-174: the document composed for brand b
RenderSvg(b) ==
    LET inits == Or(Get(b, "badge_initials", None), initials_from_name(b["name"]))
        shape == Get(b, "badge_shape", Get(b, "bg_shape", "rounded"))
        stroke == << Get(b, "badge_stroke_color", None), Get(b, "badge_stroke_width", None) >>
    IN  [ badge       |-> badge_svg(shape, Get(b, "primary", DefaultPrimary),
                                    Get(b, "accent", DefaultAccent), inits, UseGrad(b),
                                    GradFrom(b), GradTo(b), stroke),
          brand_color |-> Get(b, "accent", DefaultTitle),
          brand_name  |-> b["name"],
          domain      |-> b["domain"] ]

\* sizes of save_pngs (lines 129-132)
Sizes == << [w |-> 320, h |-> 88, file |-> "logo.png"],
            [w |-> 640, h |-> 176, file |-> "logo@2x.png"] >>

RasterWarning == "cairosvg not available; skipping PNG export"

\* the content of the file at path (the file exists)
ReadFile(files, path) == (CHOOSE e \in files : e[1] = path)[2]

\* open(path, "a") and write: the content is added to what the file holds
WriteFile_Append(files, path, content) ==
    IF \E e \in files : e[1] = path
    THEN { e \in files : e[1] # path }
         \cup { << path, Append(ReadFile(files, path), content) >> }
    ELSE files \cup { << path, << content >> >> }

\* open(path, "w") and write: the file holds content and nothing else
WriteFile(files, path, content) ==
    { e \in files : e[1] # path } \cup { << path, << content >> >> }

(***************************************************************************)
(* The inputs the model draws from.                                        *)
(***************************************************************************)
\* two uppercase letters, two lowercase letters and two separators: "A", "a"
\* and "an" are connector words, "V" and "n" are not
NameAlphabet == { "A", "V", "a", "n", "-", " " }

AIVidz == << "A","I","V","i","d","z" >>
AI_Vidz == << "A","I","-","V","i","d","z" >>
OneTwoThreeFour == << "O","n","e","T","w","o","T","h","r","e","e","F","o","u","r" >>
LordOfShadows == << "L","o","r","d"," ","o","f"," ","S","h","a","d","o","w","s" >>
AcmeLabs == << "A","c","m","e"," ","L","a","b","s" >>
TheAnd == << "T","h","e"," ","a","n","d" >>

ExampleNames == { AIVidz, AI_Vidz, OneTwoThreeFour, LordOfShadows, AcmeLabs, TheAnd,
                  << "1","2","3" >>, << "o","f" >> }

Names == UNION { [1..len -> NameAlphabet] : len \in 0..MaxNameLen } \cup ExampleNames

Yellow == << "#","F","F","F","F","0","0" >>
Blue == << "#","2","5","6","3","E","B" >>
Grey76 == << "#","7","6","7","6","7","6" >>
Grey77 == << "#","7","7","7","7","7","7" >>
Black == << "#","0","0","0","0","0","0" >>
Red == << "#","D","C","2","6","2","6" >>
Amber == << "f","5","9","e","0","b" >>
NotHex == << "r","e","d" >>

Colors == { DefaultPrimary, DefaultAccent, Yellow, Blue, Grey76, Grey77, Black, White,
            Red, Amber }

Acme == [ id |-> "acme", name |-> AcmeLabs, domain |-> "Cloud Tools",
          primary |-> DefaultPrimary, badge_shape |-> "circle" ]
Vidz == [ id |-> "aividz", name |-> AIVidz, domain |-> "Video", primary |-> Yellow,
          accent |-> Blue, use_gradient |-> TRUE, gradient_to |-> Red,
          badge_shape |-> "diamond" ]
NoName == [ id |-> "noname", domain |-> "Nameless" ]
NoDomain == [ id |-> "nodomain", name |-> LordOfShadows, badge_initials |-> << "L","S" >> ]
NoId == [ name |-> TheAnd, domain |-> "Unfiled" ]
BadColor == [ id |-> "badcolor", name |-> AI_Vidz, domain |-> "Paint", primary |-> NotHex ]

BrandPool == { Acme, Vidz, NoName, NoDomain, NoId, BadColor }

Configs ==
    { [kind |-> "missing", brands |-> << >>], [kind |-> "malformed", brands |-> << >>] }
    \cup { [kind |-> "ok", brands |-> bs] :
             bs \in UNION { [1..len -> BrandPool] : len \in 0..MaxBrands } }

\* the mapping with no key, and the mappings with the one key
NoField == [x \in {} |-> x]
OptField(key, values) == { NoField } \cup { key :> v : v \in values }

BadgeColors == { DefaultPrimary, Yellow, Grey76, Grey77 }

BadgeBrands ==
    { [id |-> "acme", name |-> AcmeLabs, domain |-> "Cloud Tools"] @@ p @@ a @@ g @@ gf @@ gt :
        p \in OptField("primary", BadgeColors), a \in OptField("accent", BadgeColors),
        g \in OptField("use_gradient", BOOLEAN),
        gf \in OptField("gradient_from", BadgeColors),
        gt \in OptField("gradient_to", BadgeColors) }

(***************************************************************************)
(* Initial states.                                                         *)
(***************************************************************************)
NoRun == [ended |-> "", dirs |-> {}, fs |-> {}]

NoCall ==
    /\ name = << >> /\ initials = << >>
    /\ primary = None /\ accent = None /\ text_color = None

NotStarted ==
    /\ bi = 0 /\ si = 0 /\ svg = None
    /\ dirs = {} /\ fs = {} /\ stdout = << >> /\ stderr = << >> /\ err = ""
    /\ run = 1 /\ firstRun = NoRun /\ rasterTried = {}

\* the script is started: brands.yaml and the installed packages are given
Init ==
    /\ pc = "start"
    /\ cfg \in Configs
    /\ cairosvg \in BOOLEAN
    /\ NotStarted
    /\ NoCall

\* initials_from_name is called with a name
InitInitials ==
    /\ pc = "initials_from_name"
    /\ name \in Names
    /\ initials = << >>
    /\ primary = None /\ accent = None /\ text_color = None
    /\ cfg = [kind |-> "ok", brands |-> << >>] /\ cairosvg = FALSE
    /\ NotStarted

\* pick_initials_color is called with one or two colours
InitColor ==
    /\ pc = "pick_initials_color"
    /\ primary \in Colors \cup { NotHex }
    /\ accent \in Colors \cup { None, NotHex }
    /\ text_color = None
    /\ name = << >> /\ initials = << >>
    /\ cfg = [kind |-> "ok", brands |-> << >>] /\ cairosvg = FALSE
    /\ NotStarted

\* main has reached line 147 for the only brand of the list
InitBadge ==
    /\ pc = "render"
    /\ \E b \in BadgeBrands : cfg = [kind |-> "ok", brands |-> << b >>]
    /\ cairosvg \in BOOLEAN
    /\ bi = 1 /\ si = 0 /\ svg = None
    /\ dirs = { "acme" } /\ fs = {} /\ stdout = << >> /\ stderr = << >> /\ err = ""
    /\ run = 1 /\ firstRun = NoRun /\ rasterTried = {}
    /\ NoCall

(***************************************************************************)
(* The calls of the two pure functions.                                    *)
(***************************************************************************)
mainVars == << cfg, cairosvg, bi, si, svg, dirs, fs, stdout, stderr, err, run,
               firstRun, rasterTried >>

DeriveInitials ==
    /\ pc = "initials_from_name"
    /\ initials' = initials_from_name(name)
    /\ pc' = "returned"
    /\ UNCHANGED << name, primary, accent, text_color, mainVars >>

PickInitialsColor ==
    /\ pc = "pick_initials_color"
    /\ text_color' = pick_initials_color(primary, accent)
    /\ pc' = "returned"
    /\ UNCHANGED << name, initials, primary, accent, mainVars >>

(***************************************************************************)
(* main and save_pngs, one action per step that the outside can see.       *)
(***************************************************************************)
callVars == << name, initials, primary, accent, text_color >>

Brand == cfg.brands[bi]

SvgPath == << Brand["id"], "logo.svg" >>

\* what open() and yaml.safe_load and data["brands"] raise (lines 141-144)
LoadError ==
    IF cfg.kind = "missing" THEN "FileNotFoundError"
    ELSE IF cfg.kind = "malformed" THEN "ConfigError"
    ELSE ""

\* an exception leaves main: the traceback goes to standard error and the
\* process ends
Raise(e) ==
    /\ pc' = "aborted"
    /\ err' = e
    /\ stderr' = Append(stderr, e)

\* the for loop goes on to the next brand, or ends
Advance ==
    /\ pc' = IF bi < Len(cfg.brands) THEN "brand" ELSE "done"
    /\ bi' = IF bi < Len(cfg.brands) THEN bi + 1 ELSE bi

\* lines 140-144
Load ==
    /\ pc = "start"
    /\ IF LoadError # ""
       THEN Raise(LoadError) /\ UNCHANGED bi
       ELSE /\ pc' = IF cfg.brands = << >> THEN "done" ELSE "brand"
            /\ bi' = IF cfg.brands = << >> THEN bi ELSE 1
            /\ UNCHANGED << err, stderr >>
    /\ UNCHANGED << cfg, cairosvg, si, svg, dirs, fs, stdout, run, firstRun,
                    rasterTried, callVars >>

\* lines 145-146: os.makedirs(folder, exist_ok=True)
MakeDirs ==
    /\ pc = "brand"
    /\ IF ~Has(Brand, "id")
       THEN Raise("KeyError") /\ UNCHANGED dirs
       ELSE /\ dirs' = dirs \cup { Brand["id"] }
            /\ pc' = "render"
            /\ UNCHANGED << err, stderr >>
    /\ UNCHANGED << cfg, cairosvg, bi, si, svg, fs, stdout, run, firstRun,
                    rasterTried, callVars >>

\* lines 147-174
Render ==
    /\ pc = "render"
    /\ IF RenderError(Brand) # ""
       THEN Raise(RenderError(Brand)) /\ UNCHANGED svg
       ELSE /\ svg' = RenderSvg(Brand)
            /\ pc' = "save_svg"
            /\ UNCHANGED << err, stderr >>
    /\ UNCHANGED << cfg, cairosvg, bi, si, dirs, fs, stdout, run, firstRun,
                    rasterTried, callVars >>

\* save_svg (lines 117-119) and the print of line 177
save_svg ==
    /\ pc = "save_svg"
    /\ fs' = WriteFile(fs, SvgPath, svg)
    /\ stdout' = Append(stdout, SvgPath)
    /\ pc' = "save_pngs"
    /\ UNCHANGED << cfg, cairosvg, bi, si, svg, dirs, stderr, err, run, firstRun,
                    rasterTried, callVars >>

\* save_pngs without the check of line 124: the call on None raises
SavePngsSkip_Unguarded ==
    /\ pc = "save_pngs"
    /\ ~cairosvg
    /\ Raise("AttributeError")
    /\ UNCHANGED << cfg, cairosvg, bi, si, svg, dirs, fs, stdout, run, firstRun,
                    rasterTried, callVars >>

\* save_pngs without cairosvg (lines 124-126): warn and return
SavePngsSkip ==
    /\ pc = "save_pngs"
    /\ ~cairosvg
    /\ stderr' = Append(stderr, RasterWarning)
    /\ Advance
    /\ UNCHANGED << cfg, cairosvg, si, svg, dirs, fs, stdout, err, run, firstRun,
                    rasterTried, callVars >>

\* save_pngs with cairosvg (lines 127-132): the vector file is read back
SavePngsRead ==
    /\ pc = "save_pngs"
    /\ cairosvg
    /\ si' = 1
    /\ rasterTried' = rasterTried \cup { bi }
    /\ pc' = "svg2png"
    /\ UNCHANGED << cfg, cairosvg, bi, svg, dirs, fs, stdout, stderr, err, run,
                    firstRun, callVars >>

\* one turn of the loop of lines 133-137: svg2png writes the file, or raises
Svg2Png ==
    /\ pc = "svg2png"
    /\ \E ok \in BOOLEAN :
         IF ok
         THEN /\ fs' = WriteFile(fs, << Brand["id"], Sizes[si].file >>,
                                 [ src |-> ReadFile(fs, SvgPath),
                                   w |-> Sizes[si].w, h |-> Sizes[si].h ])
              /\ stdout' = Append(stdout, << Brand["id"], Sizes[si].file >>)
              /\ IF si < Len(Sizes)
                 THEN si' = si + 1 /\ UNCHANGED << pc, bi >>
                 ELSE Advance /\ UNCHANGED si
              /\ UNCHANGED << err, stderr >>
         ELSE Raise("RasterError") /\ UNCHANGED << fs, stdout, bi, si >>
    /\ UNCHANGED << cfg, cairosvg, svg, dirs, run, firstRun, rasterTried, callVars >>

\* the script is started again, on the same brands.yaml and the same packages
Rerun ==
    /\ pc \in { "done", "aborted" }
    /\ run < MaxRuns
    /\ run' = run + 1
    /\ firstRun' = IF run = 1 THEN [ended |-> pc, dirs |-> dirs, fs |-> fs] ELSE firstRun
    /\ pc' = "start"
    /\ bi' = 0 /\ si' = 0 /\ svg' = None
    /\ stdout' = << >> /\ stderr' = << >> /\ err' = ""
    /\ rasterTried' = {}
    /\ UNCHANGED << cfg, cairosvg, dirs, fs, callVars >>

Next ==
    \/ Load
    \/ MakeDirs
    \/ Render
    \/ save_svg
    \/ SavePngsSkip
    \/ SavePngsRead
    \/ Svg2Png
    \/ Rerun

Spec == Init /\ [][Next]_vars

\* a started process runs on until it ends
FairSpec == Spec /\ WF_vars(Next)

SpecInitials == InitInitials /\ [][DeriveInitials]_vars

SpecColor == InitColor /\ [][PickInitialsColor]_vars

SpecBadge == InitBadge /\ [][Render]_vars

(***************************************************************************)
(* The properties.  The tokens of a name are described here by position,   *)
(* independently of the scan of FindAll.                                   *)
(***************************************************************************)
IsLetter(c) == c \in Upper \cup Lower

FollowedByLower(s, p) == p < Len(s) /\ s[p + 1] \in Lower

\* the positions where a token starts: a lowercase run, a capitalized word
\* (an uppercase letter followed by a lowercase one) or an acronym run (an
\* uppercase letter not followed by a lowercase one, that continues no
\* acronym)
TokenStarts(s) ==
    { p \in 1..Len(s) :
        \/ s[p] \in Lower /\ (p = 1 \/ ~IsLetter(s[p - 1]))
        \/ s[p] \in Upper /\ FollowedByLower(s, p)
        \/ s[p] \in Upper /\ ~FollowedByLower(s, p) /\ (p = 1 \/ s[p - 1] \notin Upper) }

\* the last position of the token that starts at p
TokenEnd(s, p) ==
    CHOOSE q \in p..Len(s) :
        /\ \A r \in (p + 1)..q : IsLetter(s[r]) /\ r \notin TokenStarts(s)
        /\ q = Len(s) \/ ~IsLetter(s[q + 1]) \/ (q + 1) \in TokenStarts(s)

TokenAt(s, p) == SubSeq(s, p, TokenEnd(s, p))

ConnectorWords == { <<"o","f">>, <<"a","n","d">>, <<"t","h","e">>, <<"a">>, <<"a","n">> }

IsConnectorAt(s, p) == StrLower(TokenAt(s, p)) \in ConnectorWords

\* the starts of the tokens that are no connector words
ContentStarts(s) == { p \in TokenStarts(s) : ~IsConnectorAt(s, p) }

\* the characters of s at the (at most) count smallest positions of P
RECURSIVE LettersAt(_, _, _)
LettersAt(s, P, count) ==
    IF P = {} \/ count = 0 THEN << >>
    ELSE LET first == CHOOSE p \in P : \A p2 \in P : p <= p2
         IN  << s[first] >> \o LettersAt(s, P \ { first }, count - 1)

FirstThreeLetters(s) == LettersAt(s, ContentStarts(s), 3)

\* s with every character of a connector token replaced by a space
BlankConnectors(s) ==
    [ j \in 1..Len(s) |->
        IF \E p \in TokenStarts(s) : IsConnectorAt(s, p) /\ p <= j /\ j <= TokenEnd(s, p)
        THEN " " ELSE s[j] ]

Bullet == << "U+2022" >>

\* C1 as claimed: for every name that has a token, initials_from_name returns
\* the first letters of its first three non-connector tokens, in order.
InitialsOfEveryName ==
    (pc = "returned" /\ TokenStarts(name) # {}) => initials = FirstThreeLetters(name)

\* C1 as amended: for every name that has at least one non-connector token,
\* initials_from_name returns the first letters of its first three
\* non-connector tokens in encounter order (fewer when fewer exist); AIVidz
\* and AI-Vidz give AV and OneTwoThreeFour gives OTT.
InitialsOfContentTokens ==
    pc = "returned" =>
        /\ ContentStarts(name) # {} => initials = FirstThreeLetters(name)
        /\ name = AIVidz => initials = << "A","V" >>
        /\ name = AI_Vidz => initials = << "A","V" >>
        /\ name = OneTwoThreeFour => initials = << "O","T","T" >>

\* C1 witness: a name of four tokens is cut to three letters.
CappedAtThree ==
    /\ pc = "returned"
    /\ name = OneTwoThreeFour
    /\ Cardinality(ContentStarts(name)) = 4
    /\ initials = << "O","T","T" >>

\* C7 as claimed: a name without letters (the empty name too) gives the
\* placeholder, one bullet character.
PlaceholderIsOneBullet ==
    (pc = "returned" /\ \A j \in 1..Len(name) : ~IsLetter(name[j])) => initials = Bullet

\* C8 as claimed: a connector token never gives its letter to the result,
\* also when every token of the name is a connector word: every letter of
\* the result is the first letter of a non-connector token.
OnlyContentLetters ==
    (pc = "returned" /\ TokenStarts(name) # {}) =>
        \A j \in 1..Len(initials) : \E p \in ContentStarts(name) : initials[j] = name[p]

\* C8 as amended: when the name has a non-connector token, the result does
\* not depend on the connector tokens (it is the result for the name with
\* them blanked out, and has no more letters than there are other tokens);
\* when every token is a connector word, the result is the first character
\* of the name.
ConnectorsDoNotContribute ==
    (pc = "returned" /\ TokenStarts(name) # {}) =>
        IF ContentStarts(name) # {}
        THEN /\ initials = initials_from_name(BlankConnectors(name))
             /\ Len(initials) <= Cardinality(ContentStarts(name))
        ELSE initials = << name[1] >>

\* C8 witness: the connector in the middle of "Lord of Shadows" is skipped.
ConnectorSkipped ==
    /\ pc = "returned"
    /\ name = LordOfShadows
    /\ \E p \in TokenStarts(name) : IsConnectorAt(name, p)
    /\ initials = << "L","S" >>

\* whether white on col has a contrast ratio of at least 4.5:
\* (1 + 0.05) / (L + 0.05) >= 4.5, without the division
WhiteContrastOk(col) == 2 * (Scale + Scale \div 20) >= 9 * (rel_lum(col) + Scale \div 20)

\* C2: pick_initials_color returns white iff the contrast of white against
\* every supplied background (primary, and accent when present) is at least
\* 4.5, and the dark colour in every other case.
WhiteIffEveryContrast ==
    (pc = "returned" /\ HexOk(primary) /\ (accent = None \/ HexOk(accent))) =>
        /\ text_color \in { TextWhite, TextDark }
        /\ text_color = TextWhite <=>
             (WhiteContrastOk(primary) /\ (accent # None => WhiteContrastOk(accent)))

\* C2 witness: white would do on the primary colour, not on the accent.
DarkBecauseOfAccent ==
    /\ pc = "returned"
    /\ primary = DefaultPrimary /\ WhiteContrastOk(primary)
    /\ accent = Yellow /\ ~WhiteContrastOk(accent)
    /\ text_color = TextDark

\* C10: the text colour of the badge is picked against the colours that fill
\* it: with the gradient flag, the fill runs from gradient_from (or primary)
\* to gradient_to (or the accent main passes) and the text colour is the pick
\* for that pair; without it, the fill is primary and the text colour is the
\* pick for primary, and for the accent only if the record has one.
TextColorMatchesFill ==
    pc = "save_svg" =>
        LET b == Brand
            p == Get(b, "primary", DefaultPrimary)
        IN  IF Has(b, "use_gradient") /\ b["use_gradient"]
            THEN LET from == IF Has(b, "gradient_from") THEN b["gradient_from"] ELSE p
                     to == IF Has(b, "gradient_to") THEN b["gradient_to"]
                           ELSE Get(b, "accent", DefaultAccent)
                 IN  /\ svg.badge.fill = GradientFill
                     /\ svg.badge.defs = << from, to >>
                     /\ svg.badge.text_color = pick_initials_color(from, to)
            ELSE /\ svg.badge.fill = p
                 /\ svg.badge.defs = << >>
                 /\ svg.badge.text_color =
                        IF Has(b, "accent") THEN pick_initials_color(p, b["accent"])
                        ELSE pick_initials_color(p, None)

\* C10 witness: a gradient between two dark colours gets white text although
\* the accent of the record is light.
GradientPairDecides ==
    /\ pc = "save_svg"
    /\ UseGrad(Brand)
    /\ Has(Brand, "gradient_from") /\ Has(Brand, "gradient_to") /\ Has(Brand, "accent")
    /\ svg.badge.text_color = TextWhite
    /\ pick_initials_color(Get(Brand, "primary", DefaultPrimary), Brand["accent"]) = TextDark

\* the number of vector files this run has written
SvgWritten == Cardinality({ n \in 1..Len(stdout) : stdout[n][2] = "logo.svg" })

\* the number of raster warnings this run has printed
Warnings == Cardinality({ n \in 1..Len(stderr) : stderr[n] = RasterWarning })

\* every brand has its required fields and well-formed colours
WellFormed(c) ==
    /\ c.kind = "ok"
    /\ \A j \in 1..Len(c.brands) :
         LET b == c.brands[j]
         IN  /\ Has(b, "id") /\ Has(b, "name") /\ Has(b, "domain")
             /\ \A key \in { "primary", "accent", "gradient_from", "gradient_to" } :
                  Has(b, key) => HexOk(b[key])

\* no two brands share an identifier
DistinctIds(c) ==
    \A j1, j2 \in 1..Len(c.brands) :
        j1 # j2 => c.brands[j1]["id"] # c.brands[j2]["id"]

\* C3 as claimed: when the raster export of brand bi fails, every later brand
\* still gets its vector file written and its raster export attempted; so a
\* run of a well-formed configuration that ends on a raster failure has done
\* both for every brand after bi.
RasterFailureIsolated ==
    (pc = "aborted" /\ err = "RasterError" /\ WellFormed(cfg) /\ DistinctIds(cfg)) =>
        \A j \in (bi + 1)..Len(cfg.brands) : SvgWritten >= j /\ j \in rasterTried

\* C4 as claimed: when a configuration error aborts the first run, no
\* directory has been created and no file written.
ConfigErrorBeforeOutput ==
    (pc = "aborted" /\ run = 1 /\ err \in { "FileNotFoundError", "ConfigError", "KeyError" }) =>
        dirs = {} /\ fs = {} /\ stdout = << >>

\* C5 as claimed: without cairosvg the warning is printed once in a run:
\* never twice, and once when a run over a non-empty list is done.
WarnedOnce ==
    ~cairosvg =>
        /\ Warnings <= 1
        /\ (pc = "done" /\ cfg.brands # << >>) => Warnings = 1

\* the vector files of all brands, in list order
AllSvgPaths == [ j \in 1..Len(cfg.brands) |-> << cfg.brands[j]["id"], "logo.svg" >> ]

\* C6: without cairosvg and with a well-formed configuration, a run never
\* aborts and comes to its end, having written the vector file of every brand
\* in list order and no raster file.
CompletesWithoutRaster ==
    /\ []((~cairosvg /\ WellFormed(cfg)) => pc # "aborted")
    /\ (pc = "start" /\ ~cairosvg /\ WellFormed(cfg))
          ~> ( /\ pc = "done"
               /\ stdout = AllSvgPaths
               /\ \A j \in 1..Len(cfg.brands) : \E e \in fs : e[1] = AllSvgPaths[j]
               /\ \A e \in fs : e[1][2] = "logo.svg" )

\* C6 witness: a run over two brands is done without cairosvg.
DoneWithoutRaster ==
    /\ pc = "done"
    /\ ~cairosvg
    /\ WellFormed(cfg)
    /\ Len(cfg.brands) >= 2
    /\ cfg.brands[1]["id"] # cfg.brands[2]["id"]
    /\ Cardinality(fs) >= 2
    /\ Warnings >= 2

\* C9: when the first run was done, a later run that is done leaves the same
\* directories and the same files with the same content.
RerunIdempotent ==
    (run >= 2 /\ pc = "done" /\ firstRun.ended = "done") =>
        fs = firstRun.fs /\ dirs = firstRun.dirs

\* C9 witness: the second run over two brands is done, rasters included.
SecondRunDone ==
    /\ run = 2
    /\ pc = "done"
    /\ firstRun.ended = "done"
    /\ cairosvg
    /\ Cardinality(dirs) = 2
    /\ Cardinality(fs) = 6

=============================================================================
